---- MODULE Spec2Model ----
(***************************************************************************)
(* Model of the UN Comtrade preview client: the ComtradeAPI wrapper        *)
(* (un_comtrade_poc_wrapper.py) with its file cache, and the command line  *)
(* front end (un_comtrade_cli.py).                                         *)
(*                                                                         *)
(* A text is a sequence of atoms; an atom is a single digit or a chunk of  *)
(* non-digit characters.  A cell of a DataFrame is a typed text: kind      *)
(* "str" (Python str) or "int" (int64) with its decimal text.              *)
(***************************************************************************)
EXTENDS Integers, Sequences, FiniteSets, TLC

VARIABLES
    mem,      \* in-memory reference tables of the live ComtradeAPI instance
    disk,     \* the cache directory: file name -> CSV file content
    cur,      \* the API call that ran last: operation, arguments, outcome
    prev,     \* the preview_final_data call right before cur, if there is one
    cli,      \* the run of the command line that ended last
    viz       \* the visualize_top_partners call that ran last

vars == <<mem, disk, cur, prev, cli, viz>>

-----------------------------------------------------------------------------
(* Bounds *)

MaxRows == 1        \* rows of a trade-data table the upstream answers with
MaxRecs == 3        \* records handed to visualize_top_partners
MaxValue == 2       \* largest primaryValue of one record
MaxTopN == 3        \* largest top_n

-----------------------------------------------------------------------------
(* Cells, tables, CSV files *)

Digits == {"0", "1", "2", "3", "4", "5", "6", "7", "8", "9"}

S(t) == [k |-> "str", v |-> t]
I(t) == [k |-> "int", v |-> t]

NoneDF == [kind |-> "none", cols |-> <<>>, rows |-> <<>>]
DF(cols, rows) == [kind |-> "df", cols |-> cols, rows |-> rows]
EmptyDF == DF(<<>>, <<>>)

\* DataFrame.empty: some axis has length 0
IsEmpty(df) == Len(df.cols) = 0 \/ Len(df.rows) = 0

\* position of a column name, 0 when the frame has no such column (KeyError)
ColIndex(df, name) ==
    IF \E j \in 1..Len(df.cols) : df.cols[j] = name
    THEN CHOOSE j \in 1..Len(df.cols) : df.cols[j] = name
    ELSE 0

\* DataFrame.to_csv(path, index=False): the header line, then one line of
\* cell texts per row; the types of the cells are not written
ToCsv(df) ==
    [header |-> df.cols,
     lines  |-> [i \in 1..Len(df.rows) |->
                    [j \in 1..Len(df.cols) |-> df.rows[i][j].v]]]

IsNumericText(t) == Len(t) > 0 /\ \A i \in 1..Len(t) : t[i] \in Digits

RECURSIVE StripZeros(_)
StripZeros(t) ==
    IF Len(t) > 1 /\ t[1] = "0" THEN StripZeros(Tail(t)) ELSE t

\* pandas.read_csv: a file without a header line raises EmptyDataError; the
\* type of a column is inferred from its texts: int64 when every text of the
\* column is a decimal number (leading zeros are lost), str otherwise
ReadCsvRaises(file) == Len(file.header) = 0

ReadCsv(file) ==
    LET n == Len(file.lines)
        numeric(j) == n > 0 /\ \A i \in 1..n : IsNumericText(file.lines[i][j])
    IN DF(file.header,
          [i \in 1..n |->
             [j \in 1..Len(file.header) |->
                IF numeric(j) THEN I(StripZeros(file.lines[i][j]))
                              ELSE S(file.lines[i][j])]])

\* ComtradeAPI._cache_data for a DataFrame
CacheData(d, data, filename) ==
    [f \in (DOMAIN d) \cup {filename} |->
        IF f = filename THEN ToCsv(data) ELSE d[f]]

\* ComtradeAPI._load_cached_data: [ret, raised]
LoadCachedData(d, filename) ==
    IF filename \in DOMAIN d
    THEN IF ReadCsvRaises(d[filename])
         THEN [ret |-> NoneDF, raised |-> TRUE]
         ELSE [ret |-> ReadCsv(d[filename]), raised |-> FALSE]
    ELSE [ret |-> NoneDF, raised |-> FALSE]

-----------------------------------------------------------------------------
(* The upstream HTTP API, as seen through requests.Session.get *)

\* JSON bodies: "bad" (response.json() raises), "list" (an array of
\* objects), "data" ({"data": [...]}), "null" ({"data": null}), "absent" ({})
Json(kind, cols, rows) == [kind |-> kind, cols |-> cols, rows |-> rows]

ConnErr == [net |-> "connerr", status |-> 0, json |-> Json("bad", <<>>, <<>>)]
Http(status, json) == [net |-> "ok", status |-> status, json |-> json]

\* pandas.DataFrame(list of objects): one column per key, one row per object
DataFrameOf(json) == DF(json.cols, json.rows)

BaseUrl == "https://comtradeapi.un.org"
ReferenceListUrl == BaseUrl \o "/files/v1/app/reference/ListofReferences.json"

Classifications == {"HS", "S1", "XX"}

\* the reference directory: one row (id, uri) per reference table
FullIds == <<"reporterAreas", "partnerAreas", "commoditiesHS", "commoditiesS1">>
PartialIds == <<"reporterAreas">>
DirJson(ids) ==
    Json("list", <<"id", "uri">>,
         [i \in 1..Len(ids) |-> <<S(<<ids[i]>>), S(<<"uri/", ids[i]>>)>>])

\* the table behind a reference uri: a code column and a label that names
\* the table it belongs to
RefJson(uri) ==
    Json("list", <<"id", "text">>, << <<I(<<"1">>), S(<<uri[2]>>)>> >>)

CellVals == {S(<<"TOTAL">>), S(<<"0", "1">>)}

RECURSIVE SeqsUpTo(_, _)
SeqsUpTo(X, n) ==
    IF n = 0 THEN {<<>>}
    ELSE LET R == SeqsUpTo(X, n - 1)
         IN R \cup {Append(s, x) : s \in {t \in R : Len(t) = n - 1}, x \in X}

\* trade-data rows: one column cmdCode
DataJson(cells) ==
    IF Len(cells) = 0 THEN Json("data", <<>>, <<>>)
    ELSE Json("data", <<"cmdCode">>, [i \in 1..Len(cells) |-> <<cells[i]>>])

\* what the environment makes of one GET
Failures == {"connerr", "status", "badjson"}
DirChoices == [k : Failures \cup {"empty", "full", "partial"}, cells : {<<>>}]
RefChoices == [k : Failures \cup {"table"}, cells : {<<>>}]
PreviewChoices ==
    [k : Failures \cup {"null", "absent"}, cells : {<<>>}]
        \cup [k : {"data"}, cells : SeqsUpTo(CellVals, MaxRows)]

\* requests.Session.get(url) under the environment's choice c
SessionGet(url, c) ==
    CASE c.k = "connerr" -> ConnErr
      [] c.k = "status"  -> Http(500, Json("bad", <<>>, <<>>))
      [] c.k = "badjson" -> Http(200, Json("bad", <<>>, <<>>))
      [] c.k = "empty"   -> Http(200, Json("list", <<>>, <<>>))
      [] c.k = "full"    -> Http(200, DirJson(FullIds))
      [] c.k = "partial" -> Http(200, DirJson(PartialIds))
      [] c.k = "table"   -> Http(200, RefJson(url))
      [] c.k = "null"    -> Http(200, Json("null", <<>>, <<>>))
      [] c.k = "absent"  -> Http(200, Json("absent", <<>>, <<>>))
      [] c.k = "data"    -> Http(200, DataJson(c.cells))

NoChoice == [k |-> "none", cells |-> <<>>]

-----------------------------------------------------------------------------
(* ComtradeAPI *)

\* the outcome of one method call: new in-memory tables, new cache
\* directory, returned value, whether an exception left the method, the
\* number of GETs issued, the environment's choice for the last GET
Res(m, d, ret, raised, reqs, resp) ==
    [mem |-> m, disk |-> d, ret |-> ret, raised |-> raised,
     reqs |-> reqs, resp |-> resp]

NoInstance ==
    [references |-> NoneDF, reporters |-> NoneDF,
     partners |-> NoneDF, commodities |-> NoneDF]

\* ComtradeAPI._load_cached_references: [mem, raised]
LoadCachedReferences(d) ==
    LET a == LoadCachedData(d, "references.csv")
        b == LoadCachedData(d, "reporters.csv")
        c == LoadCachedData(d, "partners.csv")
        e == LoadCachedData(d, "commodities.csv")
    IN [mem |-> [references |-> a.ret, reporters |-> b.ret,
                 partners |-> c.ret, commodities |-> e.ret],
        raised |-> a.raised \/ b.raised \/ c.raised \/ e.raised]

\* ComtradeAPI.__init__
Construct(d) == LoadCachedReferences(d)

\* lines 79, 108, 143, 177: use_cache and self.<table> is not None
InMemory_IgnoreFlag(use_cache, table) == table # NoneDF

InMemory(use_cache, table) == use_cache /\ table # NoneDF

\* ComtradeAPI.get_reference_tables
GetReferenceTables(m, d, use_cache, c) ==
    IF InMemory(use_cache, m.references)
    THEN Res(m, d, m.references, FALSE, 0, NoChoice)
    ELSE LET response == SessionGet(ReferenceListUrl, c)
         IN IF response.net = "connerr"
            THEN Res(m, d, NoneDF, TRUE, 1, c)
            ELSE IF response.status = 200
            THEN IF response.json.kind # "list"
                 THEN Res(m, d, NoneDF, FALSE, 1, c)
                 ELSE LET ref_data == DataFrameOf(response.json)
                      IN Res([m EXCEPT !.references = ref_data],
                             CacheData(d, ref_data, "references.csv"),
                             ref_data, FALSE, 1, c)
            ELSE Res(m, d, NoneDF, FALSE, 1, c)

\* the body shared by get_reporters, get_partners and get_commodities:
\* field is the attribute of the instance, id the row of the directory,
\* filename the cache file
GetReference(m, d, field, id, filename, use_cache, c1, c2) ==
    IF InMemory(use_cache, m[field])
    THEN Res(m, d, m[field], FALSE, 0, NoChoice)
    ELSE LET refs == GetReferenceTables(m, d, use_cache, c1)
             idcol == ColIndex(refs.ret, "id")
             match == IF idcol = 0 THEN <<>>
                      ELSE SelectSeq(refs.ret.rows,
                                     LAMBDA row : row[idcol] = S(<<id>>))
         IN IF refs.raised
            THEN Res(refs.mem, refs.disk, NoneDF, FALSE, refs.reqs, refs.resp)
            ELSE IF refs.ret = NoneDF
            THEN Res(refs.mem, refs.disk, NoneDF, FALSE, refs.reqs, refs.resp)
            ELSE IF idcol = 0 \/ Len(match) = 0
            THEN Res(refs.mem, refs.disk, NoneDF, FALSE, refs.reqs, refs.resp)
            ELSE LET ref_url == match[1][ColIndex(refs.ret, "uri")].v
                     response == SessionGet(ref_url, c2)
                 IN IF response.net = "ok" /\ response.status = 200
                                           /\ response.json.kind = "list"
                    THEN LET data == DataFrameOf(response.json)
                         IN Res([refs.mem EXCEPT ![field] = data],
                                CacheData(refs.disk, data, filename),
                                data, FALSE, refs.reqs + 1, c2)
                    ELSE Res(refs.mem, refs.disk, NoneDF, FALSE,
                             refs.reqs + 1, c2)

\* ComtradeAPI.get_reporters
GetReporters_Refetch(m, d, use_cache, c1, c2) ==
    GetReference(m, d, "reporters", "reporterAreas", "reporters.csv",
                 FALSE, c1, c2)

GetReporters(m, d, use_cache, c1, c2) ==
    GetReference(m, d, "reporters", "reporterAreas", "reporters.csv",
                 use_cache, c1, c2)

\* ComtradeAPI.get_partners
GetPartners(m, d, use_cache, c1, c2) ==
    GetReference(m, d, "partners", "partnerAreas", "partners.csv",
                 use_cache, c1, c2)

\* ComtradeAPI.get_commodities
GetCommodities(m, d, classification, use_cache, c1, c2) ==
    GetReference(m, d, "commodities", "commodities" \o classification,
                 "commodities_" \o classification \o ".csv",
                 use_cache, c1, c2)

\* the default of max_records
DefaultMaxRecords == 500

\* the argument tuples of preview_final_data in the model
Queries ==
    [reporter_code : {"842"}, flow_code : {"M"}, period : {"2022", "202212"},
     cmd_code : {"TOTAL"}, type_code : {"C"}, freq_code : {"A"},
     cl_code : {"HS"}, max_records : {DefaultMaxRecords, 10},
     include_desc : {TRUE}]

\* str(include_desc)
StrBool(b) == IF b THEN "True" ELSE "False"

\* the request URL of preview_final_data; urlencode leaves the letters,
\* digits and "_" of the model's arguments as they are
PreviewUrl(q) ==
    BaseUrl \o "/public/v1/preview/" \o q.type_code \o "/" \o q.freq_code
        \o "/" \o q.cl_code
        \o "?reportercode=" \o q.reporter_code
        \o "&flowCode=" \o q.flow_code
        \o "&period=" \o q.period
        \o "&cmdCode=" \o q.cmd_code
        \o "&maxRecords=" \o ToString(q.max_records)
        \o "&includeDesc=" \o StrBool(q.include_desc)

\* the cache key of preview_final_data
CacheKey(q) ==
    "preview_" \o q.type_code \o "_" \o q.freq_code \o "_" \o q.cl_code
        \o "_" \o q.reporter_code \o "_" \o q.flow_code \o "_" \o q.period
        \o "_" \o q.cmd_code \o ".csv"

\* line 245: 'data' in data and data['data'] is not None
HasData_Always(json) == json.kind # "bad"

HasData(json) == json.kind = "data"

\* line 251: what a 200 answer without rows returns
NoDataResult_None == NoneDF

NoDataResult == EmptyDF

\* line 237: cached_data is not None
CacheHit_Never(cached_data) == FALSE

CacheHit(cached_data) == cached_data # NoneDF

\* preview_final_data after a cache miss: the GET and what is made of it
PreviewFetch(m, d, q, c) ==
    LET response == SessionGet(PreviewUrl(q), c)
    IN IF response.net = "connerr"
       THEN Res(m, d, NoneDF, TRUE, 1, c)
       ELSE IF response.status = 200
       THEN IF response.json.kind = "bad"
            THEN Res(m, d, NoneDF, TRUE, 1, c)
            ELSE IF HasData(response.json)
            THEN LET df == DataFrameOf(response.json)
                 IN Res(m, CacheData(d, df, CacheKey(q)), df, FALSE, 1, c)
            ELSE Res(m, d, NoDataResult, FALSE, 1, c)
       ELSE Res(m, d, EmptyDF, FALSE, 1, c)

\* ComtradeAPI.preview_final_data
PreviewFinalData(m, d, q, c) ==
    LET cached_data == LoadCachedData(d, CacheKey(q))
    IN IF cached_data.raised
       THEN Res(m, d, NoneDF, TRUE, 0, NoChoice)
       ELSE IF CacheHit(cached_data.ret)
       THEN Res(m, d, cached_data.ret, FALSE, 0, NoChoice)
       ELSE PreviewFetch(m, d, q, c)

-----------------------------------------------------------------------------
(* The state machine of one cache directory and the instance working on it *)

NoQuery ==
    [reporter_code |-> "", flow_code |-> "", period |-> "", cmd_code |-> "",
     type_code |-> "", freq_code |-> "", cl_code |-> "", max_records |-> 0,
     include_desc |-> FALSE]

\* the record of one call
Call(op, arg, q, use_cache, r) ==
    [op |-> op, arg |-> arg, q |-> q, use_cache |-> use_cache,
     ret |-> r.ret, raised |-> r.raised, reqs |-> r.reqs, resp |-> r.resp.k]

NoCall ==
    Call("none", "", NoQuery, FALSE,
         Res(NoInstance, <<>>, NoneDF, FALSE, 0, NoChoice))

NoRun ==
    [action |-> "none", data |-> "none", missing |-> FALSE, exit |-> 0, message |-> "none",
     output |-> FALSE, reached |-> FALSE, reqs |-> 0]

NoViz ==
    [data |-> <<>>, top_n |-> 0, period |-> <<>>, partner_data |-> <<>>,
     ret |-> <<>>, period_desc |-> "", labels |-> <<>>,
     none |-> FALSE, done |-> FALSE]

Init ==
    /\ mem = NoInstance
    /\ disk = <<>>
    /\ cur = NoCall
    /\ prev = NoCall
    /\ cli = NoRun
    /\ viz = NoViz

Record(op, arg, q, use_cache, result) ==
    \E r \in {result} :
       /\ mem' = r.mem
       /\ disk' = r.disk
       /\ cur' = Call(op, arg, q, use_cache, r)
       /\ prev' = IF op = "preview_final_data" /\ cur.op = op
                  THEN cur ELSE NoCall
       /\ UNCHANGED <<cli, viz>>

\* a later ComtradeAPI instance on the same cache directory
NewInstance ==
    LET r == Construct(disk)
    IN Record("init", "", NoQuery, FALSE,
              Res(IF r.raised THEN mem ELSE r.mem, disk, NoneDF, r.raised,
                  0, NoChoice))

CallGetReferenceTables ==
    \E use_cache \in BOOLEAN, c \in DirChoices :
        Record("get_reference_tables", "", NoQuery, use_cache,
               GetReferenceTables(mem, disk, use_cache, c))

CallGetReporters ==
    \E use_cache \in BOOLEAN, c1 \in DirChoices, c2 \in RefChoices :
        Record("get_reporters", "", NoQuery, use_cache,
               GetReporters(mem, disk, use_cache, c1, c2))

CallGetPartners ==
    \E use_cache \in BOOLEAN, c1 \in DirChoices, c2 \in RefChoices :
        Record("get_partners", "", NoQuery, use_cache,
               GetPartners(mem, disk, use_cache, c1, c2))

CallGetCommodities ==
    \E cl \in Classifications, use_cache \in BOOLEAN,
       c1 \in DirChoices, c2 \in RefChoices :
        Record("get_commodities", cl, NoQuery, use_cache,
               GetCommodities(mem, disk, cl, use_cache, c1, c2))

CallPreviewFinalData ==
    \E q \in Queries, c \in PreviewChoices :
        Record("preview_final_data", "", q, TRUE,
               PreviewFinalData(mem, disk, q, c))

\* the reference getters of one instance, and later instances
NextRef ==
    \/ NewInstance
    \/ CallGetReferenceTables
    \/ CallGetReporters
    \/ CallGetPartners
    \/ CallGetCommodities

SpecRef == Init /\ [][NextRef]_vars

\* the trade-data fetcher
NextPreview == CallPreviewFinalData

SpecPreview == Init /\ [][NextPreview]_vars

\* the reference getters and the trade-data fetcher on one instance and one
\* cache directory; the fetcher with one query and answers of every kind
ApiQueries ==
    {q \in Queries : q.period = "2022" /\ q.max_records = DefaultMaxRecords}

ApiChoices ==
    [k : Failures \cup {"null"}, cells : {<<>>}]
        \cup [k : {"data"}, cells : {<<S(<<"TOTAL">>)>>}]

CallPreviewFinalDataOnce ==
    \E q \in ApiQueries, c \in ApiChoices :
        Record("preview_final_data", "", q, TRUE,
               PreviewFinalData(mem, disk, q, c))

NextApi ==
    \/ NewInstance
    \/ CallGetReferenceTables
    \/ CallGetReporters
    \/ CallGetPartners
    \/ CallGetCommodities
    \/ CallPreviewFinalDataOnce

SpecApi == Init /\ [][NextApi]_vars

-----------------------------------------------------------------------------
(* un_comtrade_cli.py: one run of main() on the cache directory *)

\* the outcome of a run: exit status of the process, the message on stderr,
\* whether the action produced its output, whether output_data or
\* visualize_top_partners was entered, the number of GETs issued, and
\* whether preview_final_data returned an empty table or rows
Run(args, d, exit, message, output, reached, reqs) ==
    [disk |-> d,
     run |-> [action |-> args.action,
              data |-> "none",
              missing |-> args.reporter = "" \/ args.flow = ""
                              \/ args.period = "",
              exit |-> exit, message |-> message, output |-> output,
              reached |-> reached, reqs |-> reqs]]

\* all([...]) over optional string arguments: None and "" are false
AllGiven(xs) == \A i \in 1..Len(xs) : xs[i] # ""

\* line 87 / 108: data.empty
NoTradeData_Never(data) == FALSE

NoTradeData(data) == IsEmpty(data)

\* output_data, or visualize_top_partners followed by the success line; ok
\* is false when it raises (unwritable file, missing column)
Produce(args, d, ok, reqs) ==
    IF ok THEN Run(args, d, 0, "none", TRUE, TRUE, reqs)
          ELSE Run(args, d, 1, "exception", FALSE, TRUE, reqs)

\* lines 49-71: --get-reporters, --get-partners, --get-commodities
ReferenceAction(args, r, ok) ==
    IF r.ret = NoneDF
    THEN Run(args, r.disk, 1, "could_not_retrieve", FALSE, FALSE, r.reqs)
    ELSE Produce(args, r.disk, ok, r.reqs)

\* the preview_final_data call of lines 80-85 and 101-106
CliQuery(args) ==
    [reporter_code |-> args.reporter, flow_code |-> args.flow,
     period |-> args.period, cmd_code |-> args.commodity, type_code |-> "C",
     freq_code |-> "A", cl_code |-> "HS",
     max_records |-> DefaultMaxRecords, include_desc |-> TRUE]

\* lines 73-123: --get-trade-data and --visualize
TradeAction(args, m, d, required, c, ok) ==
    IF ~AllGiven(required)
    THEN Run(args, d, 1, "required_parameters", FALSE, FALSE, 0)
    ELSE LET r == PreviewFinalData(m, d, CliQuery(args), c)
         IN IF r.raised
            THEN Run(args, r.disk, 1, "exception", FALSE, FALSE, r.reqs)
            ELSE LET got == IF IsEmpty(r.ret) THEN "empty" ELSE "rows"
                     end == IF NoTradeData(r.ret)
                            THEN Run(args, r.disk, 1, "no_trade_data",
                                     FALSE, FALSE, r.reqs)
                            ELSE Produce(args, r.disk, ok, r.reqs)
                 IN [end EXCEPT !.run.data = got]

\* main(): the constructor runs outside the try block, so an exception of
\* the constructor ends the process with a traceback and status 1
Main(d, args, c1, c2, c, ok) ==
    LET api == Construct(d)
    IN IF api.raised
       THEN Run(args, d, 1, "traceback", FALSE, FALSE, 0)
       ELSE CASE args.action = "get_reporters" ->
                   ReferenceAction(args,
                       GetReporters(api.mem, d, TRUE, c1, c2), ok)
              [] args.action = "get_partners" ->
                   ReferenceAction(args,
                       GetPartners(api.mem, d, TRUE, c1, c2), ok)
              [] args.action = "get_commodities" ->
                   ReferenceAction(args,
                       GetCommodities(api.mem, d, args.classification, TRUE,
                                      c1, c2), ok)
              [] args.action = "get_trade_data" ->
                   TradeAction(args, api.mem, d,
                       <<args.reporter, args.flow, args.period>>, c, ok)
              [] args.action = "visualize" ->
                   TradeAction(args, api.mem, d,
                       <<args.reporter, args.flow, args.period,
                         args.image_file>>, c, ok)

\* parse_arguments(): the defaults of the optional arguments
Args(action) ==
    [action |-> action, reporter |-> "", flow |-> "", period |-> "",
     commodity |-> "TOTAL", classification |-> "HS", image_file |-> ""]

RunMain(args, c1, c2, c, ok) ==
    \E r \in {Main(disk, args, c1, c2, c, ok)} :
       /\ disk' = r.disk
       /\ cli' = r.run
       /\ UNCHANGED <<mem, cur, prev, viz>>

CliGetReporters ==
    \E c1 \in DirChoices, c2 \in RefChoices, ok \in BOOLEAN :
        RunMain(Args("get_reporters"), c1, c2, NoChoice, ok)

CliGetPartners ==
    \E c1 \in DirChoices, c2 \in RefChoices, ok \in BOOLEAN :
        RunMain(Args("get_partners"), c1, c2, NoChoice, ok)

CliGetCommodities ==
    \E cl \in Classifications, c1 \in DirChoices, c2 \in RefChoices,
       ok \in BOOLEAN :
        RunMain([Args("get_commodities") EXCEPT !.classification = cl],
                c1, c2, NoChoice, ok)

CliGetTradeData ==
    \E reporter \in {"", "842"}, flow \in {"", "M"}, period \in {"", "2022"},
       c \in PreviewChoices, ok \in BOOLEAN :
        RunMain([Args("get_trade_data") EXCEPT !.reporter = reporter,
                    !.flow = flow, !.period = period],
                NoChoice, NoChoice, c, ok)

CliVisualize ==
    \E reporter \in {"", "842"}, flow \in {"M"}, period \in {"2022"},
       image_file \in {"", "chart.png"},
       c \in PreviewChoices, ok \in BOOLEAN :
        RunMain([Args("visualize") EXCEPT !.reporter = reporter,
                    !.flow = flow, !.period = period,
                    !.image_file = image_file],
                NoChoice, NoChoice, c, ok)

NextCli ==
    \/ CliGetReporters
    \/ CliGetPartners
    \/ CliGetCommodities
    \/ CliGetTradeData
    \/ CliVisualize

SpecCli == Init /\ [][NextCli]_vars

-----------------------------------------------------------------------------
(* ComtradeAPI.visualize_top_partners: the table it computes and returns *)

\* partner descriptions, in alphabetical order; a record names one by index
PartnerDescs == <<"China", "Germany">>

\* the (partnerCode, partnerDesc) pairs of the records in the model
Partners ==
    {[code |-> 1, desc |-> 1], [code |-> 1, desc |-> 2],
     [code |-> 2, desc |-> 1]}

\* primaryValue is counted in units of 10,000 USD, so that values beyond
\* two billion USD stay within the integers of the model
UnitUSD == 10000

\* a trade record: partnerCode, partnerDesc, primaryValue
Records == [key : Partners, value : 1..MaxValue]

\* the order of group keys: by partnerCode, then by partnerDesc
KeyLess(a, b) == a.code < b.code \/ (a.code = b.code /\ a.desc < b.desc)

RECURSIVE SumOf(_, _)
SumOf(data, key) ==
    IF Len(data) = 0 THEN 0
    ELSE (IF Head(data).key = key THEN Head(data).value ELSE 0)
            + SumOf(Tail(data), key)

\* line 318, the aggregation of a group: sum of primaryValue
Aggregate(data, key) == SumOf(data, key)

\* line 318: data.groupby(['partnerCode', 'partnerDesc'])['primaryValue']
\* .sum().reset_index(): one row per key, rows in ascending key order
GroupBySum(data) ==
    LET keys == {data[i].key : i \in 1..Len(data)}
        n == Cardinality(keys)
        order == CHOOSE f \in [1..n -> keys] :
                    \A i, j \in 1..n : i < j => KeyLess(f[i], f[j])
    IN [i \in 1..n |-> [key |-> order[i], value |-> Aggregate(data, order[i])]]

\* the sequences that hold the rows of a table once each
Arrangements(rows) ==
    LET n == Len(rows)
    IN {[i \in 1..n |-> rows[f[i]]] :
            f \in {g \in [1..n -> 1..n] : \A i, j \in 1..n :
                                            i # j => g[i] # g[j]}}

\* line 321: sort_values('primaryValue', ascending=False) with the default
\* kind='quicksort', which is not a stable sort: every arrangement of the
\* rows with non-increasing values is a possible result
SortValues_Ascending(rows) ==
    {t \in Arrangements(rows) :
        \A i \in 1..(Len(t) - 1) : t[i].value <= t[i + 1].value}

SortValues(rows) ==
    {t \in Arrangements(rows) :
        \A i \in 1..(Len(t) - 1) : t[i].value >= t[i + 1].value}

\* line 321: DataFrame.head(n): the first n rows, all but the last -n rows
\* for a negative n
HeadRows_OneMore(rows, n) ==
    SubSeq(rows, 1, IF n + 1 < Len(rows) THEN n + 1 ELSE Len(rows))

HeadRows(rows, n) ==
    IF n >= 0 THEN SubSeq(rows, 1, IF n < Len(rows) THEN n ELSE Len(rows))
              ELSE SubSeq(rows, 1, IF Len(rows) + n > 0 THEN Len(rows) + n
                                                        ELSE 0)

-----------------------------------------------------------------------------
(* lines 298-308: the period of the title *)

\* str(period) as a Python string, from its characters
RECURSIVE Join(_)
Join(t) == IF Len(t) = 0 THEN "" ELSE Head(t) \o Join(Tail(t))

\* int() of a decimal digit
DigitVal(ch) ==
    CASE ch = "0" -> 0 [] ch = "1" -> 1 [] ch = "2" -> 2 [] ch = "3" -> 3
      [] ch = "4" -> 4 [] ch = "5" -> 5 [] ch = "6" -> 6 [] ch = "7" -> 7
      [] ch = "8" -> 8 [] ch = "9" -> 9

RECURSIVE IntOf(_)
IntOf(t) ==
    IF Len(t) = 0 THEN 0
    ELSE 10 * IntOf(SubSeq(t, 1, Len(t) - 1)) + DigitVal(t[Len(t)])

\* the directive %m of strptime on the text that follows the year:
\* 1[0-2] | 0[1-9] | [1-9]; the length of the match, 0 for no match
MatchMonth(t) ==
    IF Len(t) >= 2 /\ t[1] = "1" /\ t[2] \in {"0", "1", "2"} THEN 2
    ELSE IF Len(t) >= 2 /\ t[1] = "0" /\ t[2] \in Digits \ {"0"} THEN 2
    ELSE IF Len(t) >= 1 /\ t[1] \in Digits \ {"0"} THEN 1
    ELSE 0

\* datetime.MINYEAR
MinYear == 1

\* datetime.strptime(text, "%Y%m"): four digits of year, the month, and
\* nothing after it; the year is at least MINYEAR.  ok is false where it
\* raises ValueError
Strptime(t) ==
    LET yearOk == Len(t) >= 4 /\ \A i \in 1..4 : t[i] \in Digits
        rest == SubSeq(t, 5, Len(t))
        n == IF yearOk THEN MatchMonth(rest) ELSE 0
    IN IF yearOk /\ n > 0 /\ n = Len(rest)
                 /\ IntOf(SubSeq(t, 1, 4)) >= MinYear
       THEN [ok |-> TRUE, year |-> IntOf(SubSeq(t, 1, 4)),
             month |-> IntOf(SubSeq(rest, 1, n))]
       ELSE [ok |-> FALSE, year |-> 0, month |-> 0]

\* the names %B gives in the C locale
MonthNames ==
    <<"January", "February", "March", "April", "May", "June", "July",
      "August", "September", "October", "November", "December">>

\* period_date.strftime("%B %Y"); %Y does not pad the year
Strftime_Numeric(year, month) == ToString(month) \o "/" \o ToString(year)

Strftime(year, month) == MonthNames[month] \o " " \o ToString(year)

\* lines 298-308: period_desc
FormatPeriod(period) ==
    IF Len(period) = 4 THEN Join(period)
    ELSE IF Len(period) = 6
    THEN LET period_date == Strptime(period)
         IN IF period_date.ok
            THEN Strftime(period_date.year, period_date.month)
            ELSE Join(period)
    ELSE Join(period)

-----------------------------------------------------------------------------
(* lines 324-331: the bars and their annotations *)

\* the bars seaborn.barplot draws for y='partnerDesc': one per distinct
\* description, in the order of first appearance, its width the mean of the
\* values of the rows with that description, kept as a fraction num/den
RECURSIVE Bars(_, _)
Bars(rows, seen) ==
    IF Len(rows) = 0 THEN <<>>
    ELSE IF Head(rows).key.desc \in seen THEN Bars(Tail(rows), seen)
    ELSE LET d == Head(rows).key.desc
             same == SelectSeq(rows, LAMBDA r : r.key.desc = d)
             total[i \in 0..Len(same)] ==
                 IF i = 0 THEN 0 ELSE total[i - 1] + same[i].value
         IN <<[num |-> total[Len(same)], den |-> Len(same)]>>
                \o Bars(Tail(rows), seen \cup {d})

\* the format .1f of the float num/den: the nearest number of tenths; a
\* decimal tie is an exact tie of the binary float only for x.25 and x.75
\* (round half to even), every other tie is decided by the binary
\* neighbour of the quotient and both directions are admitted
RoundTenths(num, den) ==
    LET q == (10 * num) \div den
        r == (10 * num) % den
    IN IF 2 * r < den THEN {q}
       ELSE IF 2 * r > den THEN {q + 1}
       ELSE IF q % 5 = 2 THEN {IF q % 2 = 0 THEN q ELSE q + 1}
       ELSE {q, q + 1}

\* the text of a number of tenths
Tenths(t) == ToString(t \div 10) \o "." \o ToString(t % 10)

\* line 328: 1e6 and 1e9
Million == 1000000
Billion == 1000000000

\* line 328: value < 1e9, for a bar of width num/den units
BelowBillion_AtMost(num, den) == num <= (Billion \div UnitUSD) * den

BelowBillion(num, den) == num < (Billion \div UnitUSD) * den

\* line 328: formatted_value, for a bar of width num/den units
FormatValue(num, den) ==
    IF BelowBillion(num, den)
    THEN {"$" \o Tenths(t) \o "M" :
            t \in RoundTenths(num, den * (Million \div UnitUSD))}
    ELSE {"$" \o Tenths(t) \o "B" :
            t \in RoundTenths(num, den * (Billion \div UnitUSD))}

\* the annotations of the bars of a table: the possible sequences
BarLabels(rows) ==
    LET bars == Bars(rows, {})
    IN {f \in [1..Len(bars) -> UNION {FormatValue(bars[i].num, bars[i].den) :
                                        i \in 1..Len(bars)}] :
            \A i \in 1..Len(bars) :
                f[i] \in FormatValue(bars[i].num, bars[i].den)}

-----------------------------------------------------------------------------
(* visualize_top_partners as an operation *)

InitViz ==
    /\ mem = NoInstance
    /\ disk = <<>>
    /\ cur = NoCall
    /\ prev = NoCall
    /\ cli = NoRun
    /\ viz \in [data : SeqsUpTo(Records, MaxRecs), top_n : -1..MaxTopN,
                period : {<<"2", "0", "2", "2">>},
                partner_data : {<<>>}, ret : {<<>>}, period_desc : {""},
                labels : {<<>>}, none : {FALSE}, done : {FALSE}]

\* lines 284-286: no data, nothing is returned
VisualizeNoData ==
    /\ ~viz.done
    /\ Len(viz.data) = 0
    /\ viz' = [viz EXCEPT !.none = TRUE, !.done = TRUE]
    /\ UNCHANGED <<mem, disk, cur, prev, cli>>

\* lines 317-349: group, sort, keep the first top_n rows, return them
VisualizeTopPartners ==
    /\ ~viz.done
    /\ Len(viz.data) > 0
    /\ LET partner_data == GroupBySum(viz.data)
       IN \E sorted \in SortValues(partner_data) :
            \E top_partners \in {HeadRows(sorted, viz.top_n)} :
               \E labels \in BarLabels(top_partners) :
                  viz' = [viz EXCEPT !.partner_data = partner_data,
                                     !.period_desc = FormatPeriod(viz.period),
                                     !.labels = labels,
                                     !.ret = top_partners,
                                     !.done = TRUE]
    /\ UNCHANGED <<mem, disk, cur, prev, cli>>

NextViz ==
    \/ VisualizeNoData
    \/ VisualizeTopPartners

SpecViz == InitViz /\ [][NextViz]_vars

\* the periods of the calls whose title and annotations are examined: a
\* year text followed by up to two characters, and texts of other lengths
PeriodChars == {"0", "1", "2", "3", "9", "a"}

YearTexts ==
    {<<"2", "0", "2", "2">>, <<"0", "0", "0", "0">>, <<"0", "9", "9", "9">>,
     <<"a", "b", "c", "1">>}

Periods ==
    {y \o m : y \in YearTexts, m \in SeqsUpTo(PeriodChars, 2)}
        \cup {<<>>, <<"2", "0", "2">>, <<"2", "0", "2", "2", "1", "2", "0">>}

\* the values of their records, in units: around the roundings of a tenth
\* of a million and around one billion USD
LabelValues ==
    {0, 5, 25, 50, 75, 99994, 99995, 99996, 99999, 100000, 104999, 105000,
     125000, 250000}

\* their records: one record, or two partners with the same description
LabelData ==
    {<< [key |-> [code |-> 1, desc |-> 1], value |-> v] >> : v \in LabelValues}
        \cup {<< [key |-> [code |-> 1, desc |-> 1], value |-> v],
                 [key |-> [code |-> 2, desc |-> 1], value |-> w] >> :
                    v \in LabelValues, w \in {99999, 100000}}

InitLabels ==
    /\ mem = NoInstance
    /\ disk = <<>>
    /\ cur = NoCall
    /\ prev = NoCall
    /\ cli = NoRun
    /\ viz \in [data : LabelData \cup {<<>>}, top_n : {MaxTopN},
                period : Periods,
                partner_data : {<<>>}, ret : {<<>>}, period_desc : {""},
                labels : {<<>>}, none : {FALSE}, done : {FALSE}]

SpecLabels == InitLabels /\ [][NextViz]_vars

-----------------------------------------------------------------------------
(* Properties of the trade-data fetcher *)

\* cur is a preview_final_data call that directly follows another one with
\* the same arguments, and that first one found no cache file
SamePair ==
    /\ cur.op = "preview_final_data"
    /\ prev.op = "preview_final_data"
    /\ prev.q = cur.q
    /\ prev.reqs = 1

\* C1 as stated: whatever the upstream answered to the first of two
\* consecutive preview_final_data calls with the same arguments, the two
\* calls issue one request in total and the second is served from the cache.
C1_OneRequestForTwoCalls ==
    SamePair => (prev.reqs + cur.reqs = 1 /\ ~cur.raised)

\* C1 as amended: the two calls issue one request in total exactly when the
\* first answer was status 200 with a data field that is not null (a cache
\* file is then written, and for a non-empty data list the second call
\* returns from it); after any other answer nothing is cached and the
\* second call issues a request of its own.
C1_OneRequestIffDataCached ==
    SamePair =>
        /\ (prev.resp = "data") => (cur.reqs = 0)
        /\ (prev.resp = "data" /\ ~IsEmpty(prev.ret)) => ~cur.raised
        /\ (prev.resp # "data") => (cur.reqs = 1)

C1_Witness ==
    /\ SamePair
    /\ prev.resp = "data" /\ ~IsEmpty(prev.ret)
    /\ cur.reqs = 0 /\ ~cur.raised /\ ~IsEmpty(cur.ret)

\* C2: the table the second of two consecutive calls with the same arguments
\* reads back from the cache file is the table the first call returned
\* (stated here for the tables with rows).
C2_CacheRoundTripLossless ==
    (SamePair /\ ~prev.raised /\ ~IsEmpty(prev.ret) /\ cur.reqs = 0) =>
        (~cur.raised /\ cur.ret = prev.ret)

\* C3: a fetch operation that met a connection error or a status other than
\* 200 does not raise; it returns None (reference getters) or an empty table
\* (preview_final_data).
C3_FailureNeverRaises ==
    (cur.reqs > 0 /\ cur.resp \in {"connerr", "status"}) =>
        /\ ~cur.raised
        /\ cur.ret = IF cur.op = "preview_final_data" THEN EmptyDF ELSE NoneDF

\* C5: without a cache entry, a 200 answer whose data field is null or
\* absent makes preview_final_data return an empty table, neither None nor
\* an exception.
C5_NullDataGivesEmptyTable ==
    (cur.op = "preview_final_data" /\ cur.reqs = 1
        /\ cur.resp \in {"null", "absent"}) =>
        (~cur.raised /\ cur.ret = EmptyDF /\ cur.ret # NoneDF)

C5_Witness ==
    /\ cur.op = "preview_final_data" /\ cur.reqs = 1 /\ cur.resp = "null"
    /\ cur.ret = EmptyDF /\ ~cur.raised

\* C6: a call is never answered from the cache file that a call with a
\* different request URL has written (here: has just written, with rows):
\* different queries have different keys.
C6_KeyUniquePerQuery ==
    (/\ cur.op = "preview_final_data"
     /\ prev.op = "preview_final_data"
     /\ prev.reqs = 1 /\ prev.resp = "data" /\ ~IsEmpty(prev.ret)
     /\ PreviewUrl(prev.q) # PreviewUrl(cur.q)) =>
        /\ CacheKey(prev.q) # CacheKey(cur.q)
        /\ cur.reqs = 1

-----------------------------------------------------------------------------
(* Properties of the reference resolver *)

\* C4: whatever ran before on the instance, get_commodities for a
\* classification the reference directory has no row for ("XX") returns
\* None and does not raise.
C4_UnknownClassificationIsNone ==
    (cur.op = "get_commodities" /\ cur.arg = "XX") =>
        (~cur.raised /\ cur.ret = NoneDF)

\* C13: a preview cache file, once it exists, is never deleted or
\* rewritten, and every later preview_final_data call with its key returns
\* the content of the file without a network request.
C13_CacheEntryNeverInvalidated ==
    [][/\ \A f \in DOMAIN disk : f \in DOMAIN disk' /\ disk'[f] = disk[f]
       /\ (cur'.op = "preview_final_data"
              /\ CacheKey(cur'.q) \in DOMAIN disk) =>
             /\ cur'.reqs = 0
             /\ ~cur'.raised
             /\ cur'.ret = ReadCsv(disk[CacheKey(cur'.q)])]_vars

\* C19: a preview_final_data call that finds a cache file reads it without
\* raising; after a 200 answer with an empty data list the next call with
\* the same arguments returns an empty table.
C19_CachedFileReadBack ==
    /\ (cur.op = "preview_final_data" /\ cur.reqs = 0) => ~cur.raised
    /\ (SamePair /\ prev.resp = "data" /\ IsEmpty(prev.ret)) =>
          (~cur.raised /\ cur.ret # NoneDF /\ IsEmpty(cur.ret))

-----------------------------------------------------------------------------
(* Properties of the reference getters across calls *)

\* the getters of reference tables: the attribute each one keeps its table
\* in and the directory row it resolves
TableGetters == {"get_reporters", "get_partners", "get_commodities"}
Getters == TableGetters \cup {"get_reference_tables"}

FieldOf(call) ==
    CASE call.op = "get_reference_tables" -> "references"
      [] call.op = "get_reporters" -> "reporters"
      [] call.op = "get_partners" -> "partners"
      [] call.op = "get_commodities" -> "commodities"

IdOf(call) ==
    CASE call.op = "get_reporters" -> "reporterAreas"
      [] call.op = "get_partners" -> "partnerAreas"
      [] call.op = "get_commodities" -> "commodities" \o call.arg

\* the cache file the getter writes
FileOf(call) ==
    CASE call.op = "get_reference_tables" -> "references.csv"
      [] call.op = "get_reporters" -> "reporters.csv"
      [] call.op = "get_partners" -> "partners.csv"
      [] call.op = "get_commodities" -> "commodities_" \o call.arg \o ".csv"

\* the directory has a row for the id
HasRow(refs, id) ==
    /\ refs # NoneDF
    /\ ColIndex(refs, "id") # 0
    /\ \E i \in 1..Len(refs.rows) :
          refs.rows[i][ColIndex(refs, "id")] = S(<<id>>)

\* the step is a call of a getter whose table was in memory before it
RepeatCall(use_cache) ==
    /\ cur'.op \in Getters
    /\ cur'.use_cache = use_cache
    /\ mem[FieldOf(cur')] # NoneDF

\* C14 as stated: a repeat call of a getter with use_cache=false returns the
\* in-memory table and issues no network request.
C14_RepeatIgnoresFlag ==
    [][RepeatCall(FALSE) =>
          (cur'.reqs = 0 /\ ~cur'.raised
              /\ cur'.ret = mem[FieldOf(cur')])]_vars

\* C14 as amended: a repeat call of a getter with use_cache=false issues at
\* least one network request and returns the table it fetched (which
\* replaces the one in memory), or null; a repeat call with use_cache=true
\* returns the in-memory table without a request.
C14_FlagIsHonoured ==
    [][/\ RepeatCall(FALSE) =>
             /\ cur'.reqs >= 1
             /\ (cur'.ret # NoneDF) =>
                    (cur'.resp \in {"table", "empty", "full", "partial"}
                        /\ mem'[FieldOf(cur')] = cur'.ret)
             /\ (cur'.ret = NoneDF) =>
                    (mem'[FieldOf(cur')] = mem[FieldOf(cur')])
       /\ RepeatCall(TRUE) =>
             (cur'.reqs = 0 /\ ~cur'.raised
                 /\ cur'.ret = mem[FieldOf(cur')])]_vars

C14_Witness ==
    /\ cur.op = "get_reporters" /\ ~cur.use_cache
    /\ cur.reqs = 2 /\ cur.resp = "status" /\ cur.ret = NoneDF
    /\ mem.reporters # NoneDF

\* the step is a call that reports a failure: a getter returns null, or
\* preview_final_data returns an empty table after a status other than 200
\* or an answer without data
FailedCall ==
    \/ cur'.op \in Getters /\ ~cur'.raised /\ cur'.ret = NoneDF
    \/ /\ cur'.op = "preview_final_data" /\ cur'.reqs = 1
       /\ cur'.resp \in {"status", "null", "absent"}
       /\ ~cur'.raised /\ cur'.ret = EmptyDF

\* every table and file but the reference directory is as before the step
OnlyDirectoryMayChange ==
    /\ \A f \in {"reporters", "partners", "commodities"} : mem'[f] = mem[f]
    /\ DOMAIN disk' \subseteq DOMAIN disk \cup {"references.csv"}
    /\ \A f \in DOMAIN disk :
          f \in DOMAIN disk' /\ (f # "references.csv" => disk'[f] = disk[f])

\* C15 as stated: a call that reports a failure leaves the in-memory tables
\* and the cache files as they were.
C15_FailureChangesNothing ==
    [][FailedCall => (mem' = mem /\ disk' = disk)]_vars

\* C15 as amended: a call that reports a failure leaves the requested table
\* and every cache file but references.csv as they were; get_reference_tables
\* and preview_final_data change nothing at all; get_reporters, get_partners
\* and get_commodities keep the reference directory they fetched before the
\* failure, in memory and in references.csv.
C15_FailureKeepsOnlyDirectory ==
    [][FailedCall =>
          /\ OnlyDirectoryMayChange
          /\ (cur'.op \notin TableGetters) => (mem' = mem /\ disk' = disk)
          /\ (mem' # mem \/ disk' # disk) =>
                /\ cur'.reqs >= 1
                /\ mem'.references # NoneDF
                /\ disk'["references.csv"] = ToCsv(mem'.references)]_vars

C15_Witness ==
    /\ cur.op = "get_reporters" /\ cur.reqs = 2 /\ cur.resp = "status"
    /\ cur.ret = NoneDF /\ ~cur.raised
    /\ mem.reporters = NoneDF /\ "reporters.csv" \notin DOMAIN disk
    /\ HasRow(mem.references, "reporterAreas")
    /\ "references.csv" \in DOMAIN disk

\* C16: preview_final_data and get_reference_tables issue at most one GET;
\* get_reporters, get_partners and get_commodities issue at most two, the
\* GET of the table only with a directory that has the matching row, and
\* none when use_cache is true and the table is in memory.
C16_NoRetries ==
    [][/\ (cur'.op \in {"preview_final_data", "get_reference_tables"})
             => (cur'.reqs <= 1)
       /\ (cur'.op \in TableGetters) =>
             /\ cur'.reqs <= 2
             /\ (cur'.reqs = 2 \/ cur'.resp = "table")
                   => HasRow(mem'.references, IdOf(cur'))
             /\ (cur'.use_cache /\ mem[FieldOf(cur')] # NoneDF)
                   => (cur'.reqs = 0)]_vars

C16_Witness ==
    /\ cur.op = "get_commodities" /\ cur.arg = "S1" /\ cur.reqs = 2
    /\ cur.resp = "table" /\ cur.ret # NoneDF
    /\ HasRow(mem.references, "commoditiesS1")
    /\ "preview_C_A_HS_842_M_2022_TOTAL.csv" \in DOMAIN disk

\* the reference table a returned table belongs to
TableIdOf(table) == table.rows[1][ColIndex(table, "text")].v[1]

\* C17: get_commodities(classification, use_cache=true) returns the table of
\* that classification or null, never the table of another classification.
C17_NoForeignClassification ==
    (cur.op = "get_commodities" /\ cur.use_cache /\ ~cur.raised
        /\ cur.ret # NoneDF) =>
        (TableIdOf(cur.ret) = "commodities" \o cur.arg)

\* C18: the first call of a getter on a new instance, with use_cache=true,
\* is answered from the cache file an earlier instance wrote for that call,
\* without a network request.
C18_NewInstanceServesFromDisk ==
    [][(/\ cur.op = "init" /\ ~cur.raised
        /\ cur'.op \in Getters /\ cur'.use_cache
        /\ FileOf(cur') \in DOMAIN disk) =>
          /\ cur'.reqs = 0
          /\ ~cur'.raised
          /\ cur'.ret = ReadCsv(disk[FileOf(cur')])]_vars

-----------------------------------------------------------------------------
(* Properties of the command line *)

\* C7: a run with --get-trade-data or --visualize in which --reporter,
\* --flow or --period is missing ends with exit code 1 and the message that
\* names the required parameters, and issues no network request.
C7_MissingParameterNoRequest ==
    (cli.action \in {"get_trade_data", "visualize"} /\ cli.missing) =>
        (cli.exit = 1 /\ cli.message = "required_parameters" /\ cli.reqs = 0)

\* C8 as stated: the exit code is 0 exactly when the action produced its
\* output, every reported error gives exit code 1, and in the error cases
\* output_data and visualize_top_partners are not reached.
C8_ExitCodeAndNothingReached ==
    (cli.action # "none") =>
    /\ (cli.exit = 0) <=> cli.output
    /\ (cli.message # "none") => (cli.exit = 1)
    /\ (cli.exit = 1) => ~cli.reached

\* C8 as amended: the exit code is 0 exactly when the action produced its
\* output and 1 on every reported error; output_data and
\* visualize_top_partners are not reached when a required parameter is
\* missing, the reference result is None, the trade data is empty or the API
\* call raises; they are reached in an error case only when they themselves
\* raise the exception, and then produce no output.
C8_ExitCodeMatchesOutput ==
    (cli.action # "none") =>
    /\ cli.exit \in {0, 1}
    /\ (cli.exit = 0) <=> cli.output
    /\ (cli.message # "none") <=> (cli.exit = 1)
    /\ (cli.action \in {"get_trade_data", "visualize"} /\ cli.missing)
            => (cli.exit = 1)
    /\ (cli.data = "empty") => (cli.exit = 1 /\ ~cli.reached)
    /\ (cli.message \in {"required_parameters", "could_not_retrieve",
                         "no_trade_data", "traceback"}) => ~cli.reached
    /\ (cli.exit = 1 /\ cli.reached) => (cli.message = "exception")
    /\ cli.output => cli.reached

C8_Witness ==
    /\ cli.action = "visualize" /\ ~cli.missing
    /\ cli.exit = 1 /\ cli.message = "no_trade_data" /\ cli.reqs = 1
    /\ cli.data = "empty"
    /\ ~cli.reached /\ ~cli.output

-----------------------------------------------------------------------------
(* Properties of visualize_top_partners *)

\* the groups of the input: its distinct (partnerCode, partnerDesc) pairs
GroupKeys == {viz.data[i].key : i \in 1..Len(viz.data)}

Returned == viz.done /\ ~viz.none

Min(a, b) == IF a < b THEN a ELSE b

\* C9 as stated: for N input records and top_n < N the returned table has
\* exactly top_n rows.
C9_ExactlyTopNRows ==
    (Returned /\ 0 <= viz.top_n /\ viz.top_n < Len(viz.data)) =>
        (Len(viz.ret) = viz.top_n)

\* C9 as amended: for N input records and 0 <= top_n < N the returned table
\* has min(top_n, G) rows, G being the number of distinct
\* (partnerCode, partnerDesc) groups of the input; it has exactly top_n rows
\* when the input has at least top_n groups.
C9_MinOfTopNAndGroups ==
    (Returned /\ 0 <= viz.top_n /\ viz.top_n < Len(viz.data)) =>
        (Len(viz.ret) = Min(viz.top_n, Cardinality(GroupKeys)))

C9_Witness ==
    /\ Returned /\ viz.top_n = 2 /\ Len(viz.data) = 3
    /\ Cardinality(GroupKeys) = 1 /\ Len(viz.ret) = 1

\* position of a group in the table the grouping formed
GroupPos(key) ==
    CHOOSE i \in 1..Len(viz.partner_data) : viz.partner_data[i].key = key

\* one row per group, each with the sum of the values of its group, in
\* descending order of the sums
RowsAreGroupSums ==
    /\ \A i \in 1..Len(viz.ret) :
          /\ viz.ret[i].key \in GroupKeys
          /\ viz.ret[i].value = SumOf(viz.data, viz.ret[i].key)
    /\ \A i, j \in 1..Len(viz.ret) : i # j => viz.ret[i].key # viz.ret[j].key
    /\ \A i, j \in 1..Len(viz.ret) :
          i < j => viz.ret[i].value >= viz.ret[j].value

\* the retained rows are the largest groups: no dropped group has a larger
\* sum than a retained one
RetainedAreLargest ==
    \A k \in GroupKeys :
        (\A i \in 1..Len(viz.ret) : viz.ret[i].key # k) =>
            \A i \in 1..Len(viz.ret) : viz.ret[i].value >= SumOf(viz.data, k)

-----------------------------------------------------------------------------
(* Properties of the title and the annotations of visualize_top_partners *)

\* the two characters that name month i
MonthText(i) ==
    IF i < 10 THEN <<"0", ToString(i)>> ELSE <<"1", ToString(i - 10)>>

\* a period of six characters that is a year and month i
IsYearMonth(p, i) ==
    /\ Len(p) = 6
    /\ \A k \in 1..4 : p[k] \in Digits
    /\ \E k \in 1..4 : p[k] # "0"
    /\ SubSeq(p, 5, 6) = MonthText(i)

\* C11: a period of 4 characters is rendered unchanged; a period of 6
\* characters that is a year and a month is rendered as the name of the
\* month and the year ("202212" as "December 2022"); every other period of
\* 6 characters ("abc123") and every period of another length is rendered
\* as the raw string.
C11_PeriodFormat ==
    Returned =>
        /\ (Len(viz.period) = 4) => (viz.period_desc = Join(viz.period))
        /\ (viz.period = <<"2", "0", "2", "2">>) => (viz.period_desc = "2022")
        /\ (viz.period = <<"2", "0", "2", "2", "1", "2">>)
                => (viz.period_desc = "December 2022")
        /\ (viz.period = <<"a", "b", "c", "1", "2", "3">>)
                => (viz.period_desc = "abc123")
        /\ \A i \in 1..12 :
              IsYearMonth(viz.period, i) =>
                  viz.period_desc
                      = MonthNames[i] \o " "
                            \o Join(StripZeros(SubSeq(viz.period, 1, 4)))
        /\ (\A i \in 1..12 : ~IsYearMonth(viz.period, i))
                => (viz.period_desc = Join(viz.period))

C11_Witness ==
    /\ Returned
    /\ viz.period = <<"2", "0", "2", "2", "1", "2">>
    /\ viz.period_desc = "December 2022"

\* the bars of the returned table
ReturnedBars == Bars(viz.ret, {})

\* an amount of USD in the units of primaryValue
Units(usd) == usd \div UnitUSD

\* the bar is narrower than, as wide as, wider than an amount of units
Below(b, units) == b.num < units * b.den
Equal(b, units) == b.num = units * b.den
Above(b, units) == b.num > units * b.den

\* t is a nearest number of tenths of num/den
NearestTenths(t, num, den) ==
    LET diff == 10 * num - t * den
    IN 2 * diff <= den /\ 2 * diff >= 0 - den

\* text is the number num/den with one decimal, followed by suffix
IsRendering(text, num, den, suffix) ==
    \E t \in {(10 * num) \div den, (10 * num) \div den + 1} :
        NearestTenths(t, num, den) /\ text = "$" \o Tenths(t) \o suffix

\* the annotation of every bar: millions and M below one billion USD,
\* billions and B from one billion USD on
AnnotationsByMagnitude ==
    /\ Len(viz.labels) = Len(ReturnedBars)
    /\ \A i \in 1..Len(viz.labels) :
          LET b == ReturnedBars[i]
          IN IF Below(b, Units(Billion))
             THEN IsRendering(viz.labels[i], b.num,
                              b.den * Units(Million), "M")
             ELSE IsRendering(viz.labels[i], b.num,
                              b.den * Units(Billion), "B")

\* 500000 gives "$0.5M" and 2500000000 gives "$2.5B"
AnnotationExamples ==
    \A i \in 1..Len(viz.labels) :
        LET b == ReturnedBars[i]
        IN /\ Equal(b, Units(500000)) => (viz.labels[i] = "$0.5M")
           /\ Equal(b, (5 * Units(Billion)) \div 2) => (viz.labels[i] = "$2.5B")

\* C12 as stated: millions with one decimal and M below one billion,
\* billions with one decimal and B at or above it, 500000 gives "$0.5M",
\* 2500000000 gives "$2.5B", and no value below one billion is rendered with
\* a number of 1000.0 or more.
C12_NeverThousandMillions ==
    Returned =>
        /\ AnnotationsByMagnitude
        /\ AnnotationExamples
        /\ \A i \in 1..Len(viz.labels) :
              Below(ReturnedBars[i], Units(Billion))
                  => (viz.labels[i] # "$1000.0M")

\* C12 as amended: millions with one decimal and M below one billion,
\* billions with one decimal and B at or above it, 500000 gives "$0.5M",
\* 2500000000 gives "$2.5B"; a value above 999,950,000 and below one billion
\* is rendered "$1000.0M", and no value below 999,950,000 is rendered with a
\* number of 1000.0 or more (at 999,950,000 itself the binary float decides).
C12_MillionsBelowBillion ==
    Returned =>
        /\ AnnotationsByMagnitude
        /\ AnnotationExamples
        /\ \A i \in 1..Len(viz.labels) :
              LET b == ReturnedBars[i]
              IN /\ Below(b, Units(999950000))
                       => (viz.labels[i] # "$1000.0M")
                 /\ (Above(b, Units(999950000)) /\ Below(b, Units(Billion)))
                       => (viz.labels[i] = "$1000.0M")

C12_Witness ==
    /\ Returned
    /\ Len(viz.ret) = 1 /\ viz.ret[1].value = Units(999960000)
    /\ viz.labels = <<"$1000.0M">>

====
